---- MODULE Spec2Model ----
(***************************************************************************)
(* Model of src/fan_driver.py: the FanDriverDaemon control loop.           *)
(*                                                                         *)
(* The main thread is a program counter `pc` walking through __init__      *)
(* (from the call of _setup_pins on line 38), run(), work() and            *)
(* _reload_config().  The two signal handlers are separate actions that    *)
(* can fire between any two steps of the main thread (CPython runs a       *)
(* signal handler in the main thread between two bytecodes).  The          *)
(* environment is the thermal sensor file, the configuration file, the     *)
(* GPIO subsystem and the passage of time during Event.wait.               *)
(***************************************************************************)
EXTENDS Integers, Sequences, FiniteSets, TLC

(***************************************************************************)
(* Bounds of the exploration.                                              *)
(***************************************************************************)
\* iterations of the loop explored when signals, reloads and faults are on
MaxIter == 2
\* iterations of the loop explored for the hysteresis histories
MaxReads == 5

(***************************************************************************)
(* Values.                                                                 *)
(***************************************************************************)
\* BCM pin numbers a configuration can name (21 is the built-in default)
Pins == {20, 21}

\* value of the locals `pin` and `temp` of work() outside of work()
NoPin == 0
NoTemp == 0

\* contents of /sys/class/thermal/thermal_zone0/temp, in millidegrees
RawTemps == {44000, 45000, 50000, 55000, 56000}

ConfigKeys == {"temp_max", "temp_min", "sleep", "control_pin"}

\* the built-in defaults of _load_config (the logging fields are left out)
DefaultConfig ==
    [temp_max |-> 55, temp_min |-> 45, sleep |-> 1, control_pin |-> 21]

\* the JSON objects the configuration file may hold
EmptyObject == [k \in {} |-> 0]

FileObjects ==
    { EmptyObject,
      [control_pin |-> 20, sleep |-> 2, temp_max |-> 50],
      [temp_min |-> 60, temp_max |-> 50],
      [sleep |-> 0] }

\* the configuration file: readable JSON, or missing / malformed
FileContents ==
    [ok : {TRUE}, data : FileObjects] \cup {[ok |-> FALSE, data |-> EmptyObject]}

VARIABLES
    pc,            \* position of the main thread
    config,        \* self.config
    pin_state,     \* self.pin_state
    running,       \* self.running
    end_event,     \* self.end_event (threading.Event)
    reload_event,  \* self.reload_event (threading.Event)
    pin,           \* local `pin` of work()
    temp,          \* local `temp` of work(), in thousandths of a degree
    gpio,          \* the GPIO channels: "free", "low" or "high"
    file,          \* the configuration file on disk
    elapsed,       \* time spent in the current Event.wait, in seconds
    budget,        \* iterations the exploration still follows
    fault,         \* history: the exception that left the loop, if any
    readings,      \* history: the temperatures read, in degrees * 1000
    writes,        \* history: the GPIO.output calls, <<iteration, level>>
    ps0,           \* history: pin_state when the current iteration began
    stop_sent,     \* history: a stop signal has been delivered
    stop_in_wait,  \* history: a stop signal was delivered during Event.wait
    rel_after_stop, \* history: the _cleanup_pins calls since stop_in_wait
    exit_code,     \* exit status of the process, -1 while it runs
    cfg0,          \* history: self.config when the current iteration began
    ops,           \* history: what the reload branch of this pass has done
    hup_in_reload  \* history: a reload signal came while this reload went on

vars ==
    << pc, config, pin_state, running, end_event, reload_event, pin, temp,
       gpio, file, elapsed, budget, fault, readings, writes, ps0, stop_sent,
       stop_in_wait, rel_after_stop, exit_code, cfg0, ops, hup_in_reload >>

progVars ==
    << pc, config, pin_state, pin, temp, gpio, elapsed, budget, fault,
       readings, writes, ps0, exit_code, cfg0, ops >>

(***************************************************************************)
(* Pure helpers.                                                           *)
(***************************************************************************)
\* config.update(data) over the defaults: a field of the file wins
LoadConfig(data) ==
    [k \in ConfigKeys |-> IF k \in DOMAIN data THEN data[k] ELSE DefaultConfig[k]]

\* init_state = GPIO.HIGH if self.pin_state else GPIO.LOW
Level(state) == IF state THEN "high" ELSE "low"

\* GPIO.setup with initial=GPIO.LOW whatever self.pin_state is
SetupPinsLow(g, cfg, state) == [g EXCEPT ![cfg.control_pin] = "low"]

\* GPIO.setup(control_pin, GPIO.OUT, initial=init_state)
SetupPins(g, cfg, state) == [g EXCEPT ![cfg.control_pin] = Level(state)]

\* GPIO.cleanup(): every channel the program has set up is released
CleanupPins(g) == [p \in Pins |-> "free"]

\* float(file.read()) / 1000, kept exact as thousandths of a degree
GetTemp(raw) == raw

\* temp > threshold and temp < threshold, threshold in whole degrees
Above(t, threshold) == t > threshold * 1000
Below(t, threshold) == t < threshold * 1000

\* the `if` of work() with temp_max in the place of temp_min
ShouldToggleOneThreshold(t, cfg, state) ==
    \/ Above(t, cfg.temp_max) /\ ~state
    \/ Below(t, cfg.temp_max) /\ state

\* the `if` of work() without the tests of self.pin_state
ShouldToggleAnyState(t, cfg, state) ==
    \/ Above(t, cfg.temp_max)
    \/ Below(t, cfg.temp_min)

\* the condition of the `if` in work()
ShouldToggle(t, cfg, state) ==
    \/ Above(t, cfg.temp_max) /\ ~state
    \/ Below(t, cfg.temp_min) /\ state

\* Event.wait(timeout): returns when the event is set or the timeout is over
WaitOver == end_event \/ elapsed >= config.sleep

AllFree(g) == \A p \in Pins : g[p] = "free"

ClaimedPins(g) == {p \in Pins : g[p] # "free"}

\* entries of the log of a reload branch
OpLoad == [op |-> "load", pins |-> {}, level |-> "free"]
OpRelease(g) == [op |-> "release", pins |-> ClaimedPins(g), level |-> "free"]
OpSetup(p, g) == [op |-> "setup", pins |-> {p}, level |-> g[p]]

\* _reload_config has read the configuration, reload_event is not yet cleared
LoadedNotCleared == pc \in {"reload_cleanup", "reload_setup", "reload_clear"}

StoppingPcs == {"except", "finally", "done"}

(***************************************************************************)
(* Initial state: __init__ has loaded the configuration, registered the    *)
(* signal handlers and set pin_state = False; _setup_pins is next.         *)
(***************************************************************************)
InitCommon ==
    /\ pc = "ctor_setup"
    /\ file \in {f \in FileContents : f.ok}
    /\ config = LoadConfig(file.data)
    /\ pin_state = FALSE
    /\ running = FALSE
    /\ end_event = FALSE
    /\ reload_event = FALSE
    /\ pin = NoPin
    /\ temp = NoTemp
    /\ gpio = [p \in Pins |-> "free"]
    /\ elapsed = 0
    /\ fault = "none"
    /\ readings = << >>
    /\ writes = << >>
    /\ ps0 = FALSE
    /\ stop_sent = FALSE
    /\ stop_in_wait = FALSE
    /\ rel_after_stop = << >>
    /\ exit_code = -1
    /\ cfg0 = config
    /\ ops = << >>
    /\ hup_in_reload = FALSE

Init == InitCommon /\ budget = MaxIter

InitHyst == InitCommon /\ budget = MaxReads

(***************************************************************************)
(* The signal handlers.                                                    *)
(***************************************************************************)
Alive == pc \notin {"done", "aborted"}

\* a stop handler that wakes the wait and leaves self.running alone
signal_stop_handler_keeps_running ==
    /\ Alive
    /\ end_event' = TRUE
    /\ stop_sent' = TRUE
    /\ stop_in_wait' = (stop_in_wait \/ pc = "wait")
    /\ UNCHANGED << progVars, running, reload_event, file, rel_after_stop >>
    /\ UNCHANGED << hup_in_reload >>

\* a stop handler that releases the pins itself
signal_stop_handler_cleans_up ==
    /\ Alive
    /\ running' = FALSE
    /\ end_event' = TRUE
    /\ stop_sent' = TRUE
    /\ stop_in_wait' = (stop_in_wait \/ pc = "wait")
    /\ gpio' = CleanupPins(gpio)
    /\ UNCHANGED << pc, config, pin_state, pin, temp, elapsed, budget, fault,
                    readings, writes, ps0, exit_code, cfg0, ops, reload_event,
                    file, rel_after_stop, hup_in_reload >>

signal_stop_handler ==
    /\ Alive
    /\ running' = FALSE
    /\ end_event' = TRUE
    /\ stop_sent' = TRUE
    /\ stop_in_wait' = (stop_in_wait \/ pc = "wait")
    /\ UNCHANGED << progVars, reload_event, file, rel_after_stop >>
    /\ UNCHANGED << hup_in_reload >>

\* a reload handler that also sets end_event to wake the wait
signal_reload_handler_wakes ==
    /\ Alive
    /\ reload_event' = TRUE
    /\ hup_in_reload' = (hup_in_reload \/ LoadedNotCleared)
    /\ end_event' = TRUE
    /\ UNCHANGED << progVars, running, file, stop_sent, stop_in_wait,
                    rel_after_stop >>

\* a reload handler that loads the configuration itself
signal_reload_handler_loads ==
    /\ Alive
    /\ reload_event' = TRUE
    /\ hup_in_reload' = (hup_in_reload \/ LoadedNotCleared)
    /\ config' = IF file.ok THEN LoadConfig(file.data) ELSE config
    /\ UNCHANGED << pc, pin_state, pin, temp, gpio, elapsed, budget, fault,
                    readings, writes, ps0, exit_code, cfg0, ops, running,
                    end_event, file, stop_sent, stop_in_wait, rel_after_stop >>

signal_reload_handler ==
    /\ Alive
    /\ reload_event' = TRUE
    /\ hup_in_reload' = (hup_in_reload \/ LoadedNotCleared)
    /\ UNCHANGED << progVars, running, end_event, file, stop_sent,
                    stop_in_wait, rel_after_stop >>

(***************************************************************************)
(* The environment.                                                        *)
(***************************************************************************)
\* somebody rewrites the configuration file
EditConfigFile ==
    /\ Alive
    /\ file' \in FileContents \ {file}
    /\ UNCHANGED << progVars, running, end_event, reload_event, stop_sent,
                    stop_in_wait, rel_after_stop >>
    /\ UNCHANGED << hup_in_reload >>

\* one second passes while the main thread is blocked in Event.wait
Tick ==
    /\ pc = "wait"
    /\ ~WaitOver
    /\ elapsed' = elapsed + 1
    /\ UNCHANGED << pc, config, pin_state, running, end_event, reload_event,
                    pin, temp, gpio, file, budget, fault, readings, writes,
                    ps0, stop_sent, stop_in_wait, rel_after_stop >>
    /\ UNCHANGED << exit_code, cfg0, ops, hup_in_reload >>

(***************************************************************************)
(* __init__, line 38.                                                      *)
(***************************************************************************)
CtorSetup ==
    /\ pc = "ctor_setup"
    /\ gpio' = SetupPins(gpio, config, pin_state)
    /\ pc' = "run"
    /\ UNCHANGED << config, pin_state, running, end_event, reload_event, pin,
                    temp, file, elapsed, budget, fault, readings, writes, ps0,
                    stop_sent, stop_in_wait, rel_after_stop >>
    /\ UNCHANGED << exit_code, cfg0, ops, hup_in_reload >>

\* GPIO.setup raises: the constructor fails and run() is never called
CtorSetupFails ==
    /\ pc = "ctor_setup"
    /\ pc' = "aborted"
    /\ fault' = "setup"
    /\ exit_code' = 1
    /\ UNCHANGED << config, pin_state, running, end_event, reload_event, pin,
                    temp, gpio, file, elapsed, budget, readings, writes, ps0,
                    stop_sent, stop_in_wait, rel_after_stop >>
    /\ UNCHANGED << cfg0, ops, hup_in_reload >>

(***************************************************************************)
(* run().                                                                  *)
(***************************************************************************)
\* line 117
RunStart ==
    /\ pc = "run"
    /\ running' = TRUE
    /\ pc' = "loop"
    /\ UNCHANGED << config, pin_state, end_event, reload_event, pin, temp,
                    gpio, file, elapsed, budget, fault, readings, writes, ps0,
                    stop_sent, stop_in_wait, rel_after_stop >>
    /\ UNCHANGED << exit_code, cfg0, ops, hup_in_reload >>

\* line 118: while self.running
LoopTest ==
    /\ pc = "loop"
    /\ pc' = IF running THEN "work" ELSE "finally"
    /\ ops' = << >>
    /\ UNCHANGED << config, pin_state, running, end_event, reload_event, pin,
                    temp, gpio, file, elapsed, budget, fault, readings, writes,
                    ps0, stop_sent, stop_in_wait, rel_after_stop >>
    /\ UNCHANGED << exit_code, cfg0, hup_in_reload >>

(***************************************************************************)
(* work().                                                                 *)
(***************************************************************************)
\* lines 105-107
WorkRead ==
    /\ pc = "work"
    /\ budget > 0
    /\ \E raw \in RawTemps :
        /\ temp' = GetTemp(raw)
        /\ readings' = Append(readings, GetTemp(raw))
    /\ pin' = config.control_pin
    /\ ps0' = pin_state
    /\ cfg0' = config
    /\ budget' = budget - 1
    /\ pc' = "decide"
    /\ UNCHANGED << config, pin_state, running, end_event, reload_event, gpio,
                    file, elapsed, fault, writes, stop_sent, stop_in_wait,
                    rel_after_stop >>
    /\ UNCHANGED << exit_code, ops, hup_in_reload >>

\* line 106 raises: the sensor file is missing or not a number
WorkReadFails ==
    /\ pc = "work"
    /\ pin' = NoPin
    /\ fault' = "sensor"
    /\ pc' = "except"
    /\ UNCHANGED << config, pin_state, running, end_event, reload_event, temp,
                    gpio, file, elapsed, budget, readings, writes, ps0,
                    stop_sent, stop_in_wait, rel_after_stop >>
    /\ UNCHANGED << exit_code, cfg0, ops, hup_in_reload >>

\* lines 108-110
WorkDecide ==
    /\ pc = "decide"
    /\ IF ShouldToggle(temp, config, pin_state)
         THEN /\ pin_state' = ~pin_state
              /\ pc' = "output"
              /\ UNCHANGED << pin, temp, elapsed >>
         ELSE /\ pc' = "wait"
              /\ elapsed' = 0
              /\ pin' = NoPin
              /\ temp' = NoTemp
              /\ UNCHANGED pin_state
    /\ UNCHANGED << config, running, end_event, reload_event, gpio, file,
                    budget, fault, readings, writes, ps0, stop_sent,
                    stop_in_wait, rel_after_stop >>
    /\ UNCHANGED << exit_code, cfg0, ops, hup_in_reload >>

\* GPIO.output called with the level the pin had before the toggle
WorkOutputOldLevel ==
    /\ pc = "output"
    /\ gpio[pin] # "free"
    /\ gpio' = [gpio EXCEPT ![pin] = Level(~pin_state)]
    /\ writes' = Append(writes, << Len(readings) - 1, ~pin_state >>)
    /\ pc' = "wait"
    /\ elapsed' = 0
    /\ pin' = NoPin
    /\ temp' = NoTemp
    /\ UNCHANGED << config, pin_state, running, end_event, reload_event, file,
                    budget, fault, readings, ps0, stop_sent, stop_in_wait,
                    rel_after_stop >>
    /\ UNCHANGED << exit_code, cfg0, ops, hup_in_reload >>

\* lines 111-112
WorkOutput ==
    /\ pc = "output"
    /\ gpio[pin] # "free"
    /\ gpio' = [gpio EXCEPT ![pin] = Level(pin_state)]
    /\ writes' = Append(writes, << Len(readings) - 1, pin_state >>)
    /\ pc' = "wait"
    /\ elapsed' = 0
    /\ pin' = NoPin
    /\ temp' = NoTemp
    /\ UNCHANGED << config, pin_state, running, end_event, reload_event, file,
                    budget, fault, readings, ps0, stop_sent, stop_in_wait,
                    rel_after_stop >>
    /\ UNCHANGED << exit_code, cfg0, ops, hup_in_reload >>

\* line 111 raises
WorkOutputFails ==
    /\ pc = "output"
    /\ fault' = "write"
    /\ pc' = "except"
    /\ pin' = NoPin
    /\ temp' = NoTemp
    /\ UNCHANGED << config, pin_state, running, end_event, reload_event, gpio,
                    file, elapsed, budget, readings, writes, ps0, stop_sent,
                    stop_in_wait, rel_after_stop >>
    /\ UNCHANGED << exit_code, cfg0, ops, hup_in_reload >>

(***************************************************************************)
(* run(), after work().                                                    *)
(***************************************************************************)
\* line 122: self.end_event.wait(timeout=self.config['sleep']) returns
WaitReturn ==
    /\ pc = "wait"
    /\ WaitOver
    /\ pc' = "reload_check"
    /\ UNCHANGED << config, pin_state, running, end_event, reload_event, pin,
                    temp, gpio, file, elapsed, budget, fault, readings, writes,
                    ps0, stop_sent, stop_in_wait, rel_after_stop >>
    /\ UNCHANGED << exit_code, cfg0, ops, hup_in_reload >>

\* line 124: if self.reload_event.is_set()
ReloadCheck ==
    /\ pc = "reload_check"
    /\ pc' = IF reload_event THEN "reload_load" ELSE "loop"
    /\ UNCHANGED << config, pin_state, running, end_event, reload_event, pin,
                    temp, gpio, file, elapsed, budget, fault, readings, writes,
                    ps0, stop_sent, stop_in_wait, rel_after_stop >>
    /\ UNCHANGED << exit_code, cfg0, ops, hup_in_reload >>

\* lines 68-70: self.config = self._load_config(config_file)
ReloadLoad ==
    /\ pc = "reload_load"
    /\ file.ok
    /\ config' = LoadConfig(file.data)
    /\ ops' = Append(ops, OpLoad)
    /\ pc' = "reload_cleanup"
    /\ UNCHANGED << pin_state, running, end_event, reload_event, pin, temp,
                    gpio, file, elapsed, budget, fault, readings, writes, ps0,
                    stop_sent, stop_in_wait, rel_after_stop >>
    /\ UNCHANGED << exit_code, cfg0, hup_in_reload >>

\* line 68 raises: open() or json.load() fails
ReloadLoadFails ==
    /\ pc = "reload_load"
    /\ ~file.ok
    /\ ops' = << >>
    /\ fault' = "config"
    /\ pc' = "except"
    /\ UNCHANGED << config, pin_state, running, end_event, reload_event, pin,
                    temp, gpio, file, elapsed, budget, readings, writes, ps0,
                    stop_sent, stop_in_wait, rel_after_stop >>
    /\ UNCHANGED << exit_code, cfg0, hup_in_reload >>

\* a reload that sets the pins up again without releasing them first
ReloadCleanupSkipped ==
    /\ pc = "reload_cleanup"
    /\ pc' = "reload_setup"
    /\ UNCHANGED << config, pin_state, running, end_event, reload_event, pin,
                    temp, gpio, file, elapsed, budget, fault, readings, writes,
                    ps0, stop_sent, stop_in_wait, rel_after_stop >>
    /\ UNCHANGED << exit_code, cfg0, ops, hup_in_reload >>

\* line 71: self._cleanup_pins()
ReloadCleanup ==
    /\ pc = "reload_cleanup"
    /\ gpio' = CleanupPins(gpio)
    /\ ops' = Append(ops, OpRelease(gpio))
    /\ rel_after_stop' =
         IF stop_in_wait THEN Append(rel_after_stop, "reload") ELSE rel_after_stop
    /\ pc' = "reload_setup"
    /\ UNCHANGED << config, pin_state, running, end_event, reload_event, pin,
                    temp, file, elapsed, budget, fault, readings, writes, ps0,
                    stop_sent, stop_in_wait >>
    /\ UNCHANGED << exit_code, cfg0, hup_in_reload >>

\* a reload that sets up the built-in default pin, not the configured one
ReloadSetupDefaultPin ==
    /\ pc = "reload_setup"
    /\ gpio' = SetupPins(gpio, DefaultConfig, pin_state)
    /\ ops' = Append(ops, OpSetup(DefaultConfig.control_pin, gpio'))
    /\ pc' = "reload_clear"
    /\ UNCHANGED << config, pin_state, running, end_event, reload_event, pin,
                    temp, file, elapsed, budget, fault, readings, writes, ps0,
                    stop_sent, stop_in_wait, rel_after_stop >>
    /\ UNCHANGED << exit_code, cfg0, hup_in_reload >>

\* line 72: self._setup_pins()
ReloadSetup ==
    /\ pc = "reload_setup"
    /\ gpio' = SetupPins(gpio, config, pin_state)
    /\ ops' = Append(ops, OpSetup(config.control_pin, gpio'))
    /\ pc' = "reload_clear"
    /\ UNCHANGED << config, pin_state, running, end_event, reload_event, pin,
                    temp, file, elapsed, budget, fault, readings, writes, ps0,
                    stop_sent, stop_in_wait, rel_after_stop >>
    /\ UNCHANGED << exit_code, cfg0, hup_in_reload >>

\* line 72 raises
ReloadSetupFails ==
    /\ pc = "reload_setup"
    /\ fault' = "setup"
    /\ pc' = "except"
    /\ ops' = << >>
    /\ cfg0' = config
    /\ hup_in_reload' = FALSE
    /\ UNCHANGED << config, pin_state, running, end_event, reload_event, pin,
                    temp, gpio, file, elapsed, budget, readings, writes, ps0,
                    stop_sent, stop_in_wait, rel_after_stop, exit_code >>

\* line 126: self.reload_event.clear()
ReloadClear ==
    /\ pc = "reload_clear"
    /\ reload_event' = FALSE
    /\ hup_in_reload' = FALSE
    /\ cfg0' = config
    /\ pc' = "loop"
    /\ UNCHANGED << config, pin_state, running, end_event, pin, temp, gpio,
                    file, elapsed, budget, fault, readings, writes, ps0,
                    stop_sent, stop_in_wait, rel_after_stop >>
    /\ UNCHANGED << exit_code, ops >>

\* an except clause inside the while loop: the error is logged, the loop goes on
HandleExceptionResumes ==
    /\ pc = "except"
    /\ pc' = "loop"
    /\ UNCHANGED << config, pin_state, running, end_event, reload_event, pin,
                    temp, gpio, file, elapsed, budget, fault, readings, writes,
                    ps0, stop_sent, stop_in_wait, rel_after_stop >>
    /\ UNCHANGED << exit_code, cfg0, ops, hup_in_reload >>

\* lines 127-130: except BaseException, the error is logged
HandleException ==
    /\ pc = "except"
    /\ pc' = "finally"
    /\ UNCHANGED << config, pin_state, running, end_event, reload_event, pin,
                    temp, gpio, file, elapsed, budget, fault, readings, writes,
                    ps0, stop_sent, stop_in_wait, rel_after_stop >>
    /\ UNCHANGED << exit_code, cfg0, ops, hup_in_reload >>

\* lines 131-133: finally, self._cleanup_pins()
Finally ==
    /\ pc = "finally"
    /\ gpio' = CleanupPins(gpio)
    /\ rel_after_stop' =
         IF stop_in_wait THEN Append(rel_after_stop, "final") ELSE rel_after_stop
    /\ pc' = "done"
    /\ exit_code' = 0
    /\ UNCHANGED << config, pin_state, running, end_event, reload_event, pin,
                    temp, file, elapsed, budget, fault, readings, writes, ps0,
                    stop_sent, stop_in_wait >>
    /\ UNCHANGED << cfg0, ops, hup_in_reload >>

(***************************************************************************)
(* Specifications.                                                         *)
(***************************************************************************)
Next ==
    \/ signal_stop_handler
    \/ signal_reload_handler
    \/ EditConfigFile
    \/ Tick
    \/ CtorSetup
    \/ CtorSetupFails
    \/ RunStart
    \/ LoopTest
    \/ WorkRead
    \/ WorkReadFails
    \/ WorkDecide
    \/ WorkOutput
    \/ WorkOutputFails
    \/ WaitReturn
    \/ ReloadCheck
    \/ ReloadLoad
    \/ ReloadLoadFails
    \/ ReloadCleanup
    \/ ReloadSetup
    \/ ReloadSetupFails
    \/ ReloadClear
    \/ HandleException
    \/ Finally

Spec == Init /\ [][Next]_vars

\* the loop alone: no signal, no fault, the configuration file is not touched
NextHyst ==
    \/ Tick
    \/ CtorSetup
    \/ RunStart
    \/ LoopTest
    \/ WorkRead
    \/ WorkDecide
    \/ WorkOutput
    \/ WaitReturn
    \/ ReloadCheck

SpecHyst == InitHyst /\ [][NextHyst]_vars

(***************************************************************************)
(* Vocabulary of the properties.                                           *)
(***************************************************************************)
\* positions inside work(): a temperature read is under way or has happened
WorkPcs == {"work", "decide", "output"}

\* positions of an iteration that has not failed and not yet finished work()
MidIteration == pc \in {"decide", "output"}

ValidThresholds(cfg) == cfg.temp_min < cfg.temp_max

InvalidConfig(cfg) == cfg.temp_min >= cfg.temp_max \/ cfg.sleep <= 0

InDeadBand(t, cfg) == Above(t, cfg.temp_min) /\ Below(t, cfg.temp_max)

\* some reading exceeded temp_max and no later reading was below temp_min
EngagedBy(rs, cfg) ==
    \E i \in 1..Len(rs) :
        /\ Above(rs[i], cfg.temp_max)
        /\ \A j \in (i + 1)..Len(rs) : ~Below(rs[j], cfg.temp_min)

\* the writes a sequence of readings calls for: one at every iteration
\* (counted from 0) where the engaged state changes, with the new state
RECURSIVE ExpectedWrites(_, _)
ExpectedWrites(rs, cfg) ==
    IF rs = << >>
      THEN << >>
      ELSE LET n == Len(rs)
               before == SubSeq(rs, 1, n - 1)
           IN  IF EngagedBy(rs, cfg) # EngagedBy(before, cfg)
                 THEN Append(ExpectedWrites(before, cfg),
                             << n - 1, EngagedBy(rs, cfg) >>)
                 ELSE ExpectedWrites(before, cfg)

(***************************************************************************)
(* C1.  One iteration of work() changes pin_state from disengaged to       *)
(* engaged only when temp > temp_max, and from engaged to disengaged only   *)
(* when temp < temp_min; a reading strictly between the two thresholds     *)
(* leaves pin_state as it is and work() returns without calling            *)
(* GPIO.output.                                                            *)
(***************************************************************************)
C1_HysteresisStep ==
    [][ /\ (~pin_state /\ pin_state') =>
              (pc = "decide" /\ Above(temp, config.temp_max))
        /\ (pin_state /\ ~pin_state') =>
              (pc = "decide" /\ Below(temp, config.temp_min))
        /\ (pc = "decide" /\ pc' # "decide" /\ InDeadBand(temp, config)) =>
              (pin_state' = pin_state /\ pc' = "wait" /\ writes' = writes
                 /\ gpio' = gpio)
        /\ (writes' # writes) => (pc = "output" /\ pin_state # ps0) ]_vars

\* an engaged fan has just seen a reading inside the dead band
C1_Witness ==
    /\ pc = "wait"
    /\ pin_state
    /\ ps0
    /\ Len(readings) >= 2
    /\ InDeadBand(readings[Len(readings)], config)

(***************************************************************************)
(* C2.  Under a fixed configuration with temp_min < temp_max, starting     *)
(* disengaged, after every iteration the pin is engaged iff some reading   *)
(* exceeded temp_max and no later reading was below temp_min.              *)
(***************************************************************************)
C2_EngagedIffLastCrossingWasMax ==
    (ValidThresholds(config) /\ ~MidIteration) =>
        (pin_state <=> EngagedBy(readings, config))

\* engaged, disengaged and engaged again
C2_Witness ==
    /\ pc = "wait"
    /\ ValidThresholds(config)
    /\ pin_state
    /\ \E i, j, k \in 1..Len(readings) :
          /\ i < j
          /\ j < k
          /\ Above(readings[i], config.temp_max)
          /\ Below(readings[j], config.temp_min)
          /\ Above(readings[k], config.temp_max)

(***************************************************************************)
(* C3.  GPIO.output is called exactly in the iterations where the pin      *)
(* state toggles, once, with the new state as the level; a reading above   *)
(* temp_max while engaged or below temp_min while disengaged gives no      *)
(* write.  With temp_min = 45 and temp_max = 55 the readings               *)
(* 50, 56, 50, 44, 50 give a write of "engaged" at index 1, a write of     *)
(* "disengaged" at index 3, and end disengaged.                            *)
(***************************************************************************)
ScenarioA == << 50000, 56000, 50000, 44000, 50000 >>

C3_WritesExactlyAtToggles ==
    /\ (ValidThresholds(config) /\ ~MidIteration) =>
          /\ writes = ExpectedWrites(readings, config)
          /\ \A p \in ClaimedPins(gpio) : gpio[p] = Level(pin_state)
    /\ (config.temp_min = 45 /\ config.temp_max = 55 /\ pc = "wait"
          /\ readings = ScenarioA) =>
          (writes = << << 1, TRUE >>, << 3, FALSE >> >> /\ ~pin_state)

C3_Witness ==
    /\ pc = "wait"
    /\ config.temp_min = 45
    /\ config.temp_max = 55
    /\ readings = ScenarioA
    /\ Len(writes) = 2

(***************************************************************************)
(* C4 as stated.  After a stop request that arrives during the             *)
(* interruptible wait there is no further temperature read, and at the     *)
(* exit of a run that met no fault _cleanup_pins has been called exactly   *)
(* once since the request.                                                 *)
(***************************************************************************)
C4_ReleasedExactlyOnceAfterStop ==
    stop_in_wait =>
        /\ pc \notin WorkPcs
        /\ (pc = "done" /\ fault = "none") => Len(rel_after_stop) = 1

(***************************************************************************)
(* C4 as amended.  After a stop request that arrives during the            *)
(* interruptible wait there is no further temperature read; at exit no     *)
(* pin is claimed, the final cleanup has released the pin exactly once,    *)
(* and the only other release since the request is the one of a reload     *)
(* branch that was pending when the wait ended.                            *)
(***************************************************************************)
C4_StopInWaitExits ==
    stop_in_wait =>
        /\ pc \notin WorkPcs
        /\ pc = "done" =>
              /\ AllFree(gpio)
              /\ rel_after_stop \in { << "final" >>, << "reload", "final" >> }

\* stopped during the wait with a reload pending: two releases
C4_Witness ==
    /\ pc = "done"
    /\ fault = "none"
    /\ stop_in_wait
    /\ rel_after_stop = << "reload", "final" >>

(***************************************************************************)
(* C5.  Once a sensor read has failed the loop is stopping: there is no    *)
(* further temperature read and no pin write, and the pin is released      *)
(* when the loop has ended.                                                *)
(***************************************************************************)
C5_SensorFailureStops ==
    /\ [](fault = "sensor" =>
            (pc \in StoppingPcs /\ (pc = "done" => AllFree(gpio))))
    /\ [][fault = "sensor" =>
            (readings' = readings /\ writes' = writes /\ pin_state' = pin_state)]_vars

\* the sensor failed in a later iteration and the loop has ended
C5_Witness ==
    /\ pc = "done"
    /\ fault = "sensor"
    /\ Len(readings) > 0

(***************************************************************************)
(* C6.  Pin initialize and release are paired: a pin is claimed only when  *)
(* no pin is claimed, so every claim is followed by one release that       *)
(* frees it before the next claim, and no pin is claimed when the loop     *)
(* has terminated, whatever ended it.                                      *)
(***************************************************************************)
C6_InitializeReleasePaired ==
    /\ [](Cardinality(ClaimedPins(gpio)) <= 1)
    /\ [](pc = "done" => AllFree(gpio))
    /\ [][ClaimedPins(gpio') \ ClaimedPins(gpio) # {} => AllFree(gpio)]_vars

\* the loop ended on a failure inside a reload
C6_Witness ==
    /\ pc = "done"
    /\ fault \in {"setup", "config"}
    /\ AllFree(gpio)

(***************************************************************************)
(* C7 as stated.  A reload that finds an invalid configuration             *)
(* (temp_min >= temp_max or a non-positive poll interval) while a valid    *)
(* one is active and no stop was requested keeps the active                *)
(* configuration, does not re-initialize the pin, and goes on to clear     *)
(* the reload flag.                                                        *)
(***************************************************************************)
C7_InvalidReloadRejected ==
    [][ (/\ pc = "reload_load"
         /\ pc' # "reload_load"
         /\ ~stop_sent
         /\ file.ok
         /\ ~InvalidConfig(config)
         /\ InvalidConfig(LoadConfig(file.data)))
        => (config' = config /\ pc' = "reload_clear") ]_vars

(***************************************************************************)
(* C8 as stated.  A reload whose configuration source cannot be read or    *)
(* parsed, with no stop requested, keeps the previous configuration and    *)
(* leaves the loop running.                                                *)
(***************************************************************************)
C8_ReloadErrorKeepsRunning ==
    [][ (pc = "reload_load" /\ pc' # "reload_load" /\ ~stop_sent /\ ~file.ok)
        => (config' = config /\ pc' \notin StoppingPcs) ]_vars

C10_StateKeptOnFailedWrite ==
    fault = "write" => (pin_state = ps0 /\ pc \in StoppingPcs)

(***************************************************************************)
(* Vocabulary of the reload properties.                                    *)
(***************************************************************************)
ReloadPcs == {"reload_load", "reload_cleanup", "reload_setup", "reload_clear"}

\* a reload branch that loaded once, released `old` once and set `new` up once
OneReload(old, new, level) ==
    << OpLoad,
       [op |-> "release", pins |-> {old}, level |-> "free"],
       [op |-> "setup", pins |-> {new}, level |-> level] >>

(***************************************************************************)
(* C11.  A reload with a valid configuration that names another            *)
(* control_pin releases the old pin exactly once and initializes the new   *)
(* pin exactly once, at the level of the pin_state carried over; the       *)
(* reload does not change pin_state.                                       *)
(***************************************************************************)
C11_ReloadMovesPin ==
    /\ []((/\ pc = "reload_clear"
           /\ ~InvalidConfig(config)
           /\ cfg0.control_pin # config.control_pin) =>
            /\ ops = OneReload(cfg0.control_pin, config.control_pin,
                               Level(pin_state))
            /\ gpio[cfg0.control_pin] = "free"
            /\ gpio[config.control_pin] = Level(pin_state))
    /\ [][(pc \in ReloadPcs) => (pin_state' = pin_state)]_vars

\* an engaged fan has been moved from pin 21 to pin 20
C11_Witness ==
    /\ pc = "reload_clear"
    /\ ~InvalidConfig(config)
    /\ pin_state
    /\ cfg0.control_pin = 21
    /\ config.control_pin = 20
    /\ gpio[20] = "high"

(***************************************************************************)
(* C12 as stated.  When the process has ended, its exit status is zero     *)
(* after a clean stop request and non-zero after a fatal error in an       *)
(* iteration.                                                              *)
(***************************************************************************)
C12_ExitStatusTellsFault ==
    pc = "done" => (exit_code = 0 <=> fault = "none")

(***************************************************************************)
(* C13 as stated.  A loop pass in which a reload branch ran and a stop     *)
(* request has been delivered (both pending after the wait, or the stop    *)
(* arriving during the pin re-initialization) does not start another       *)
(* iteration, and no pin is claimed at exit.                               *)
(***************************************************************************)
C13_StopOverridesReload ==
    /\ [](pc = "done" => AllFree(gpio))
    /\ [][(pc = "loop" /\ stop_sent /\ ops # << >>) => (pc' # "work")]_vars

(***************************************************************************)
(* C14 as stated.  Stop and reload requests coalesce: once a stop signal   *)
(* has been delivered a further stop signal changes nothing, and a reload  *)
(* branch does one load, one release and one initialize however many       *)
(* reload signals came before it.                                          *)
(***************************************************************************)
C14_SignalsCoalesce ==
    [][ /\ stop_sent => ~(running /\ ~running')
        /\ (pc = "reload_clear" /\ pc' # "reload_clear") =>
              (/\ Len(ops) = 3
               /\ ops[1].op = "load"
               /\ ops[2].op = "release"
               /\ ops[3].op = "setup") ]_vars

(***************************************************************************)
(* C15.  The configuration is replaced only by the load of the reload      *)
(* branch, after the wait: whenever a reload signal arrives, the           *)
(* comparison, the pin written to and the wait of an iteration use the     *)
(* configuration that was active when the iteration began.                 *)
(***************************************************************************)
C15_ConfigFixedInIteration ==
    /\ [](pc \in {"decide", "output", "wait", "reload_check", "reload_load"}
            => config = cfg0)
    /\ [](pc = "output" => pin = cfg0.control_pin)
    /\ [][config' # config =>
            (pc = "reload_load" /\ pc' = "reload_cleanup")]_vars

\* a reload for another configuration is pending in the middle of an iteration
C15_Witness ==
    /\ pc = "output"
    /\ reload_event
    /\ file.ok
    /\ LoadConfig(file.data) # config
    /\ config = cfg0

(***************************************************************************)
(* C16.  A signal handler only sets flags: a step that is neither a step   *)
(* of the main thread, nor time passing, nor an edit of the configuration  *)
(* file leaves the configuration, pin_state, the locals of work() and the  *)
(* pins as they are; it sets either running and end_event (stop) or        *)
(* reload_event (reload), never both.                                      *)
(***************************************************************************)
C16_HandlersOnlySetFlags ==
    [][ (pc' = pc /\ elapsed' = elapsed /\ file' = file) =>
          /\ UNCHANGED << config, pin_state, pin, temp, gpio >>
          /\ \/ UNCHANGED << running, end_event, reload_event >>
             \/ ~running' /\ end_event' /\ UNCHANGED reload_event
             \/ reload_event' /\ UNCHANGED << running, end_event >> ]_vars

\* both handlers have run between the update of pin_state and the write
C16_Witness ==
    /\ pc = "output"
    /\ stop_sent
    /\ ~running
    /\ reload_event
    /\ pin_state
    /\ gpio[pin] = "low"

(***************************************************************************)
(* C17 as stated.  After every pin initialization, at startup and after a  *)
(* reload, the control pin is at the disengaged level.                     *)
(***************************************************************************)
C17_ReinitAlwaysDisengaged ==
    pc \in {"run", "reload_clear"} => gpio[config.control_pin] = "low"

(***************************************************************************)
(* C17 as amended.  The initialization at startup puts the control pin at  *)
(* the disengaged level (pin_state is False then); the re-initialization   *)
(* of a reload puts it at the level of the current pin_state, so an        *)
(* engaged fan stays engaged.                                              *)
(***************************************************************************)
C17_ReinitLevelFollowsState ==
    /\ pc = "run" => (~pin_state /\ gpio[config.control_pin] = "low")
    /\ pc = "reload_clear" =>
          (/\ ops # << >>
           /\ ops[Len(ops)].op = "setup"
           /\ ops[Len(ops)].level = Level(pin_state)
           /\ gpio[config.control_pin] = Level(pin_state))

\* a reload has re-initialized the pin of an engaged fan
C17_Witness ==
    /\ pc = "reload_clear"
    /\ pin_state
    /\ gpio[config.control_pin] = "high"
    /\ cfg0.control_pin = config.control_pin

(***************************************************************************)
(* C18 as stated.  No stop request is lost: with end_event set, the loop   *)
(* test does not start another iteration.                                  *)
(***************************************************************************)
C18_StopNeverLost ==
    [][(pc = "loop" /\ end_event) => (pc' # "work")]_vars

(***************************************************************************)
(* C19 as stated.  No reload request is lost: a reload signal delivered    *)
(* after the configuration was read and before reload_event is cleared     *)
(* leaves reload_event set when the branch ends, so that another load      *)
(* follows.                                                                *)
(***************************************************************************)
C19_ReloadNeverLost ==
    [][(pc = "reload_clear" /\ pc' # "reload_clear" /\ hup_in_reload)
         => reload_event']_vars

(***************************************************************************)
(* C20.  Between iterations, at the start of work() and in the wait, the   *)
(* level of the configured control pin is the one of pin_state.            *)
(***************************************************************************)
C20_PinLevelMatchesState ==
    pc \in {"work", "wait"} => gpio[config.control_pin] = Level(pin_state)

\* 55 degrees engaged the fan, so temp_max was 50 on pin 20; a reload has
\* moved the engaged fan to pin 21
C20_Witness ==
    /\ pc = "work"
    /\ pin_state
    /\ readings = << 55000 >>
    /\ config.control_pin = 21
    /\ gpio[21] = "high"

====
